---------------------------- MODULE Spec2Model ----------------------------
(***************************************************************************)
(* Model of the visual-relation evaluation of VidVRD-py3:                  *)
(*   src/evaluation/visual_relation_detection.py                           *)
(*       eval_detection_scores, eval_tagging_scores, evaluate,             *)
(*       evaluate_segs                                                     *)
(*   src/evaluate.py                                                       *)
(*       evaluate_relation                                                 *)
(*                                                                         *)
(* Numbers.  Scores are floats in the program; here a score is an integer  *)
(* (tenths: 9 stands for 0.9).  Overlaps, precisions, recalls and average  *)
(* precisions are exact rationals <<numerator, denominator>> in lowest     *)
(* terms; float32 rounding is not modelled.  -inf is the integer NegInf,   *)
(* below every score.  Python's 0-based indices are 1-based here, so the   *)
(* "no candidate" value of k_max (-1 in the code) is 0.                    *)
(***************************************************************************)
EXTENDS Integers, Sequences, FiniteSets, TLC

\* ------------------------------------------------------------------ bounds
\* Longest ground-truth list and prediction list of one matcher call.
MaxGt == 2
MaxPred == 2
\* Longest prediction list of one tagger call.
MaxTagPred == 3
\* Longest per-video ground-truth list of an evaluate or evaluate_relation
\* run, and of an evaluate_segs run (its ground-truth segments).
MaxVideoGt == 1
MaxSegs == 2

\* ------------------------------------------------------- program constants
\* -np.inf, the miss sentinel of hit_scores.
NegInf == -1000

\* ---------------------------------------------------------------- rationals
RECURSIVE Gcd(_, _)
Gcd(a, b) == IF b = 0 THEN a ELSE Gcd(b, a % b)

Abs(x) == IF x < 0 THEN -x ELSE x

\* A float value as a fraction in lowest terms with a positive denominator.
Rat(n, d) == LET g == Gcd(Abs(n), d) IN <<n \div g, d \div g>>

RatLt(a, b) == a[1] * b[2] < b[1] * a[2]
RatLe(a, b) == a[1] * b[2] <= b[1] * a[2]
RatMin(a, b) == IF RatLe(a, b) THEN a ELSE b
RatMax(a, b) == IF RatLe(b, a) THEN a ELSE b
RatAdd(a, b) == Rat(a[1] * b[2] + b[1] * a[2], a[2] * b[2])
RatSub(a, b) == Rat(a[1] * b[2] - b[1] * a[2], a[2] * b[2])
RatMul(a, b) == Rat(a[1] * b[1], a[2] * b[2])
Zero == <<0, 1>>
One == <<1, 1>>

\* ------------------------------------------------------------------ inputs
BoundedSeq(S, n) == UNION {[1..k -> S] : k \in 0..n}

Triplets == {<<1, 2, 3>>, <<4, 5, 6>>}
Scores == {8, 9}
TagScores == {7, 8, 9}

\* A trajectory is one box on one frame, given by the left edge of a box of
\* width BoxW; the duration is that frame.
BoxW == 3
Duration == <<0, 1>>
GtTrajs == {<<0, 0>>, <<1, 0>>}
PredTrajs == {<<0, 0>>, <<1, 0>>, <<0, 2>>}

GtInsts ==
    {[triplet |-> t, sub_traj |-> p[1], obj_traj |-> p[2], duration |-> Duration] :
        t \in Triplets, p \in GtTrajs}

PredInsts ==
    {[triplet |-> t, sub_traj |-> p[1], obj_traj |-> p[2], duration |-> Duration,
      score |-> s] : t \in Triplets, p \in PredTrajs, s \in Scores}

\* viou_threshold: the default of evaluate and evaluate_segs, 0.5.
DefaultViouThreshold == <<1, 2>>

\* ------------------------------------------------------------------- viou
\* common.viou: volume of the intersection of two trajectories over the
\* volume of their union, 0 when the durations do not overlap.
Viou(traj_1, duration_1, traj_2, duration_2) ==
    IF duration_1[1] >= duration_2[2] \/ duration_1[2] <= duration_2[1]
    THEN Zero
    ELSE LET d == Abs(traj_1 - traj_2)
             inter == IF d >= BoxW THEN 0 ELSE BoxW - d
         IN  Rat(inter, 2 * BoxW - inter)

\* ---------------------------------------------------- eval_detection_scores
IsFinite(x) == x # NegInf

\* sorted(pred_relations, key=score, reverse=True): stable, equal scores keep
\* their input order.
RECURSIVE InsertByScore(_, _)
InsertByScore(r, s) ==
    IF s = <<>> THEN <<r>>
    ELSE IF s[Len(s)].score >= r.score THEN Append(s, r)
    ELSE Append(InsertByScore(r, SubSeq(s, 1, Len(s) - 1)), s[Len(s)])

RECURSIVE SortByScoreUnstable(_)
SortByScoreUnstable(preds) ==
    IF preds = <<>> THEN <<>>
    ELSE LET rest == SortByScoreUnstable(SubSeq(preds, 1, Len(preds) - 1))
             r == preds[Len(preds)]
             before == SelectSeq(rest, LAMBDA x : x.score > r.score)
             after == SelectSeq(rest, LAMBDA x : x.score <= r.score)
         IN  before \o <<r>> \o after

RECURSIVE SortByScore(_)
SortByScore(preds) ==
    IF preds = <<>> THEN <<>>
    ELSE InsertByScore(preds[Len(preds)],
                       SortByScore(SubSeq(preds, 1, Len(preds) - 1)))

\* min(s_iou, o_iou) of one prediction and one ground-truth instance.
Overlap(pred_relation, gt_relation) ==
    RatMin(Viou(pred_relation.sub_traj, pred_relation.duration,
                gt_relation.sub_traj, gt_relation.duration),
           Viou(pred_relation.obj_traj, pred_relation.duration,
                gt_relation.obj_traj, gt_relation.duration))

\* ov_max = -inf before the scan; every overlap is >= 0.
NegInfOv == <<-1, 1>>

\* The inner loop over the ground truth, from gt_idx on: <<ov_max, k_max>>.
RECURSIVE ScanGtFirstFit(_, _, _, _, _, _, _)
ScanGtFirstFit(pred_relation, gts, detected, thr, gt_idx, ov_max, k_max) ==
    IF gt_idx > Len(gts) THEN <<ov_max, k_max>>
    ELSE LET ov == Overlap(pred_relation, gts[gt_idx])
             take == /\ ~detected[gt_idx]
                     /\ pred_relation.triplet = gts[gt_idx].triplet
                     /\ RatLe(thr, ov)
                     /\ k_max = 0
         IN  ScanGtFirstFit(pred_relation, gts, detected, thr, gt_idx + 1,
                            IF take THEN ov ELSE ov_max,
                            IF take THEN gt_idx ELSE k_max)

RECURSIVE ScanGt(_, _, _, _, _, _, _)
ScanGt(pred_relation, gts, detected, thr, gt_idx, ov_max, k_max) ==
    IF gt_idx > Len(gts) THEN <<ov_max, k_max>>
    ELSE LET ov == Overlap(pred_relation, gts[gt_idx])
             take == /\ ~detected[gt_idx]
                     /\ pred_relation.triplet = gts[gt_idx].triplet
                     /\ RatLe(thr, ov)
                     /\ RatLt(ov_max, ov)
         IN  ScanGt(pred_relation, gts, detected, thr, gt_idx + 1,
                    IF take THEN ov ELSE ov_max,
                    IF take THEN gt_idx ELSE k_max)

\* One iteration of the loop over the predictions.  st holds gt_detected,
\* hit_scores and k_hist, the k_max of every iteration so far.
DetStepNoClaim(gts, thr, st, rank, pred_relation) ==
    LET k_max == ScanGt(pred_relation, gts, st.gt_detected, thr, 1, NegInfOv, 0)[2]
    IN  [gt_detected |-> st.gt_detected,
         hit_scores |-> IF k_max >= 1
                        THEN [st.hit_scores EXCEPT ![rank] = pred_relation.score]
                        ELSE st.hit_scores,
         k_hist |-> Append(st.k_hist, k_max)]

DetStep(gts, thr, st, rank, pred_relation) ==
    LET k_max == ScanGt(pred_relation, gts, st.gt_detected, thr, 1, NegInfOv, 0)[2]
    IN  [gt_detected |-> IF k_max >= 1
                         THEN [st.gt_detected EXCEPT ![k_max] = TRUE]
                         ELSE st.gt_detected,
         hit_scores |-> IF k_max >= 1
                        THEN [st.hit_scores EXCEPT ![rank] = pred_relation.score]
                        ELSE st.hit_scores,
         k_hist |-> Append(st.k_hist, k_max)]

\* An array of n entries x.
RECURSIVE Filled(_, _)
Filled(n, x) == IF n = 0 THEN <<>> ELSE Append(Filled(n - 1, x), x)

\* gt_detected = zeros, hit_scores = ones * -inf.
DetStart(gts, preds) ==
    [gt_detected |-> Filled(Len(gts), FALSE),
     hit_scores |-> Filled(Len(preds), NegInf),
     k_hist |-> <<>>]

RECURSIVE DetLoop(_, _, _, _, _)
DetLoop(gts, preds, thr, st, rank) ==
    IF rank > Len(preds) THEN st
    ELSE DetLoop(gts, preds, thr, DetStep(gts, thr, st, rank, preds[rank]),
                 rank + 1)

\* np.cumsum of the true positives of a hit sequence, up to rank k.
RECURSIVE CumTp(_, _)
CumTp(hits, k) ==
    IF k = 0 THEN 0 ELSE CumTp(hits, k - 1) + (IF IsFinite(hits[k]) THEN 1 ELSE 0)

\* rec = cum_tp / max(n_gt, eps): with n_gt = 0 nothing is a hit and
\* 0 / eps = 0.
RecSeq(hits, n_gt) ==
    [k \in 1..Len(hits) |-> IF n_gt = 0 THEN Zero ELSE Rat(CumTp(hits, k), n_gt)]

\* prec = cum_tp / max(cum_tp + cum_fp, eps): cum_tp + cum_fp = k at rank k.
PrecSeq(hits) == [k \in 1..Len(hits) |-> Rat(CumTp(hits, k), k)]

\* The whole function: (prec, rec, hit_scores).
EvalDetectionScores(gts, preds, thr) ==
    LET sorted == SortByScore(preds)
        st == DetLoop(gts, sorted, thr, DetStart(gts, sorted), 1)
    IN  [prec |-> PrecSeq(st.hit_scores),
         rec |-> RecSeq(st.hit_scores, Len(gts)),
         hit_scores |-> st.hit_scores]

\* ----------------------------------------------------- eval_tagging_scores
\* The tagger reads only triplet and score.
TagGtInsts ==
    {[triplet |-> t, sub_traj |-> 0, obj_traj |-> 0, duration |-> Duration] :
        t \in Triplets}

TagPredInsts ==
    {[triplet |-> t, sub_traj |-> 0, obj_traj |-> 0, duration |-> Duration,
      score |-> s] : t \in Triplets, s \in TagScores}

\* set(tuple(r['triplet']) for r in gt_relations)
GtTripletSet(gts) == {gts[i].triplet : i \in 1..Len(gts)}

InSeq(x, seq) == \E i \in 1..Len(seq) : seq[i] = x

\* One iteration of the walk, lines 44-48: st holds pred_triplets and
\* hit_scores.
TagWalkStepLast(st, r) ==
    IF InSeq(r.triplet, st.pred_triplets)
    THEN [pred_triplets |-> st.pred_triplets,
          hit_scores |-> [i \in 1..Len(st.hit_scores) |->
                             IF st.pred_triplets[i] = r.triplet THEN r.score
                             ELSE st.hit_scores[i]]]
    ELSE [pred_triplets |-> Append(st.pred_triplets, r.triplet),
          hit_scores |-> Append(st.hit_scores, r.score)]

TagWalkStep(st, r) ==
    IF InSeq(r.triplet, st.pred_triplets)
    THEN st
    ELSE [pred_triplets |-> Append(st.pred_triplets, r.triplet),
          hit_scores |-> Append(st.hit_scores, r.score)]

RECURSIVE TagWalk(_, _, _)
TagWalk(preds, st, k) ==
    IF k > Len(preds) THEN st
    ELSE TagWalk(preds, TagWalkStep(st, preds[k]), k + 1)

\* Lines 50-52: the triplets not in the ground truth become -inf.
TagMask(triplets, scores, gt_set) ==
    [i \in 1..Len(scores) |-> IF triplets[i] \notin gt_set THEN NegInf ELSE scores[i]]

\* The whole function: (prec, rec, hit_scores).
EvalTaggingScores(gts, preds) ==
    LET sorted == SortByScore(preds)
        gt_set == GtTripletSet(gts)
        st == TagWalk(sorted, [pred_triplets |-> <<>>, hit_scores |-> <<>>], 1)
        hits == TagMask(st.pred_triplets, st.hit_scores, gt_set)
    IN  [prec |-> PrecSeq(hits),
         rec |-> RecSeq(hits, Cardinality(gt_set)),
         hit_scores |-> hits]

\* ------------------------------------------------------------------ voc_ap
\* common.voc_ap without the 07 metric: the precision envelope integrated
\* over the recall steps.
RECURSIVE Envelope(_, _)
Envelope(mpre, i) ==
    IF i = Len(mpre) THEN mpre[i] ELSE RatMax(mpre[i], Envelope(mpre, i + 1))

RECURSIVE ApSum(_, _, _)
ApSum(mrec, mpre, i) ==
    IF i >= Len(mrec) THEN Zero
    ELSE RatAdd(IF mrec[i + 1] # mrec[i]
                THEN RatMul(RatSub(mrec[i + 1], mrec[i]), Envelope(mpre, i + 1))
                ELSE Zero,
                ApSum(mrec, mpre, i + 1))

VocAp(rec, prec) ==
    ApSum(<<Zero>> \o rec \o <<One>>, <<Zero>> \o prec \o <<Zero>>, 1)

\* ---------------------------------------------------- evaluate, evaluate_segs
\* The defaults of det_nreturns and tag_nreturns; the report indexes the
\* results by these very numbers.
DetNreturns == <<50, 100>>
TagNreturns == <<1, 5, 10>>
DetN == {DetNreturns[i] : i \in 1..Len(DetNreturns)}
TagN == {TagNreturns[i] : i \in 1..Len(TagNreturns)}

\* np.mean of an empty list is nan, with a warning and no exception.
NaN == <<0, 0>>

RECURSIVE RatSum(_)
RatSum(seq) == IF seq = <<>> THEN Zero ELSE RatAdd(seq[1], RatSum(Tail(seq)))

Mean(seq) == IF seq = <<>> THEN NaN ELSE RatMul(RatSum(seq), <<1, Len(seq)>>)

\* list(d.values()) of a dict d.
RECURSIVE Values(_)
Values(d) ==
    IF DOMAIN d = {} THEN <<>>
    ELSE LET k == CHOOSE x \in DOMAIN d : TRUE
         IN  <<d[k]>> \o Values([x \in DOMAIN d \ {k} |-> d[x]])

\* d[key] = value
Put(d, key, value) == [x \in DOMAIN d \cup {key} |-> IF x = key THEN value ELSE d[x]]

Min(a, b) == IF a <= b THEN a ELSE b

\* seq[:n]
Take(seq, n) == SubSeq(seq, 1, Min(n, Len(seq)))

RECURSIVE Concat(_)
Concat(seqs) == IF seqs = <<>> THEN <<>> ELSE seqs[1] \o Concat(Tail(seqs))

\* scores[np.argsort(scores)[::-1]]: descending.
RECURSIVE InsertDesc(_, _)
InsertDesc(x, s) ==
    IF s = <<>> THEN <<x>>
    ELSE IF s[1] <= x THEN <<x>> \o s
    ELSE <<s[1]>> \o InsertDesc(x, Tail(s))

RECURSIVE SortDesc(_)
SortDesc(s) == IF s = <<>> THEN <<>> ELSE InsertDesc(s[1], SortDesc(Tail(s)))

\* Lines 165-170: the tagging precision a video adds for nre.
TagPrecAtStrict(tag_prec, nre) ==
    IF Len(tag_prec) >= nre THEN tag_prec[nre] ELSE Zero

TagPrecAt(tag_prec, nre) ==
    LET cut_off == Min(nre, Len(tag_prec))
    IN  IF cut_off > 0 THEN tag_prec[cut_off] ELSE Zero

\* The empty accumulators of a run.
AccStart ==
    [ap |-> <<>>,
     tot_scores |-> [nre \in DetN |-> <<>>],
     tot_tp |-> [nre \in DetN |-> <<>>],
     prec_at_n |-> [nre \in TagN |-> <<>>],
     tot |-> 0]

\* What one matcher call and one tagger call add to the accumulators,
\* lines 155-170: the AP under key, the truncated scores and hits, the
\* tagging precisions.
Accumulate(acc, key, gts, preds, thr) ==
    LET det == EvalDetectionScores(gts, preds, thr)
        tp == [k \in 1..Len(det.hit_scores) |-> IsFinite(det.hit_scores[k])]
        tag == EvalTaggingScores(gts, preds)
    IN  [ap |-> Put(acc.ap, key, VocAp(det.rec, det.prec)),
         tot_scores |-> [nre \in DetN |->
                           Append(acc.tot_scores[nre], Take(det.hit_scores, nre))],
         tot_tp |-> [nre \in DetN |-> Append(acc.tot_tp[nre], Take(tp, nre))],
         prec_at_n |-> [nre \in TagN |->
                          Append(acc.prec_at_n[nre], TagPrecAt(tag.prec, nre))],
         tot |-> acc.tot]

\* evaluate, one video that is not skipped: tot counts the ground truth
\* when base_on_gt, the predictions otherwise.
EvaluateVideo(acc, vid, gts, preds, thr, on_gt) ==
    Accumulate([acc EXCEPT !.tot = @ + (IF on_gt THEN Len(gts) ELSE Len(preds))],
               vid, gts, preds, thr)

\* evaluate_segs, one video that is not skipped: every ground-truth segment
\* on its own against all the predictions, the AP stored under the video id.
RECURSIVE SegsLoop(_, _, _, _, _, _)
SegsLoop(acc, vid, gts, preds, thr, k) ==
    IF k > Len(gts) THEN acc
    ELSE SegsLoop(Accumulate(acc, vid, <<gts[k]>>, preds, thr),
                  vid, gts, preds, thr, k + 1)

SegsVideo(acc, vid, gts, preds, thr) ==
    SegsLoop([acc EXCEPT !.tot = @ + Len(preds)], vid, gts, preds, thr, 1)

\* The pooled recall of one nre, lines 176-182: the exception, if any, and
\* the value.
PooledRecall(acc, nre) ==
    IF acc.tot_scores[nre] = <<>>
    THEN [error |-> "ValueError", value |-> NaN]
    ELSE LET scores == Concat(acc.tot_scores[nre])
             sorted == SortDesc(scores)
         IN  IF sorted = <<>>
             THEN [error |-> "IndexError", value |-> NaN]
             ELSE [error |-> "none",
                   value |-> Rat(CumTp(sorted, Len(sorted)), acc.tot)]

\* Lines 172-186: the three results, or the first exception.
Reduce(acc) ==
    LET rec == [nre \in DetN |-> PooledRecall(acc, nre)]
        first == DetNreturns[1]
    IN  [error |-> rec[first].error,
         mean_ap |-> Mean(Values(acc.ap)),
         rec_at_n |-> [nre \in DetN |-> rec[nre].value],
         mprec_at_n |-> [nre \in TagN |-> Mean(acc.prec_at_n[nre])]]

\* ---------------------------------------------------------- evaluate_relation
\* Lines 41-44 and 47-50: the relations whose triplet is zero-shot.
RECURSIVE ZeroShotOnly(_, _)
ZeroShotOnly(relations, zeroshot_triplets) ==
    IF relations = <<>> THEN <<>>
    ELSE LET rest == ZeroShotOnly(SubSeq(relations, 1, Len(relations) - 1),
                                  zeroshot_triplets)
             r == relations[Len(relations)]
         IN  IF r.triplet \in zeroshot_triplets THEN Append(rest, r) ELSE rest

\* The videos, and the instances the aggregator runs are fed.
Videos == {"v1", "v2"}

\* dataset.get_triplets(split): the triplets of the relations of a split.
SplitTriplets(insts) == UNION {GtTripletSet(insts[vid]) : vid \in DOMAIN insts}

AggGtInsts ==
    {[triplet |-> t, sub_traj |-> 0, obj_traj |-> 0, duration |-> Duration] :
        t \in Triplets}

AggPredInsts ==
    {[triplet |-> <<1, 2, 3>>, sub_traj |-> 0, obj_traj |-> 0,
      duration |-> Duration, score |-> 9],
     [triplet |-> <<4, 5, 6>>, sub_traj |-> 0, obj_traj |-> 0,
      duration |-> Duration, score |-> 8]}

\* ------------------------------------------------------------------- state
VARIABLES
    gt_relations,     \* eval_detection_scores: argument
    pred_input,       \* eval_detection_scores: pred_relations as passed
    pred_relations,   \* eval_detection_scores: pred_relations after the sort
    viou_threshold,   \* eval_detection_scores: argument
    pred_idx,         \* number of predictions the loop has processed
    gt_detected,      \* the claimed flags
    hit_scores,       \* score of a hit, NegInf of a miss, per rank
    k_hist,           \* k_max of every iteration so far (0: no candidate)
    det_result,       \* (prec, rec) once returned
    det_pc,           \* "start", "loop", "done"; "off" outside SpecDet
    tag_gt,           \* eval_tagging_scores: gt_relations
    tag_input,        \* eval_tagging_scores: pred_relations as passed
    tag_sorted,       \* eval_tagging_scores: pred_relations after the sort
    gt_triplets,      \* the set of ground-truth triplets
    pred_triplets,    \* the retained triplets, in rank order
    tag_hit_scores,   \* hit_scores of the tagger
    tag_k,            \* number of predictions the walk has read
    tag_result,       \* (prec, rec) once returned
    tag_pc,           \* "start", "walk", "cum", "done"; "off"
    func,             \* the aggregator running: "evaluate", "evaluate_segs"
    groundtruth,      \* video id -> ground-truth relations
    prediction,       \* video id -> predicted relations
    base_on_gt,       \* argument
    todo,             \* the videos the loop has not reached
    acc,              \* video_ap / seg_ap, tot_scores, tot_tp, prec_at_n and
                      \* tot_gt_relations / tot_pred_relations, as a record
    result,           \* (mean_ap, rec_at_n, mprec_at_n) once returned
    error,            \* the exception that ended the run, or "none"
    agg_pc,           \* "entry", "loop", "reduce", "returned", "raised",
                      \* "exited"; "off"
    segment,          \* evaluate_relation: argument
    dataset,          \* video id -> dataset.get_relation_insts(vid)
    train_triplets,   \* dataset.get_triplets('train')
    rel_prediction,   \* evaluate_relation: argument prediction
    rel_groundtruth,  \* evaluate_relation: groundtruth
    zs_prediction,    \* evaluate_relation: zs_prediction
    calls,            \* the aggregator calls made so far: "full", "zero-shot"
    rel_pc            \* "build", "first", "in_first", "filter", "second",
                      \* "in_second", "returned", "raised", "exited"; "off"

detVars == <<gt_relations, pred_input, pred_relations, viou_threshold, pred_idx,
             gt_detected, hit_scores, k_hist, det_result, det_pc>>

tagVars == <<tag_gt, tag_input, tag_sorted, gt_triplets, pred_triplets,
             tag_hit_scores, tag_k, tag_result, tag_pc>>

aggVars == <<func, groundtruth, prediction, base_on_gt, todo, acc, result,
             error, agg_pc>>

relVars == <<segment, dataset, train_triplets, rel_prediction, rel_groundtruth,
             zs_prediction, calls, rel_pc>>

vars == <<detVars, tagVars, aggVars, relVars>>

\* The state of a function that is not running.
DetOff ==
    /\ gt_relations = <<>> /\ pred_input = <<>> /\ pred_relations = <<>>
    /\ viou_threshold = DefaultViouThreshold /\ pred_idx = 0
    /\ gt_detected = <<>> /\ hit_scores = <<>> /\ k_hist = <<>>
    /\ det_result = <<>> /\ det_pc = "off"

TagOff ==
    /\ tag_gt = <<>> /\ tag_input = <<>> /\ tag_sorted = <<>>
    /\ gt_triplets = {} /\ pred_triplets = <<>> /\ tag_hit_scores = <<>>
    /\ tag_k = 0 /\ tag_result = <<>> /\ tag_pc = "off"

AggOff ==
    /\ func = "none" /\ groundtruth = <<>> /\ prediction = <<>>
    /\ base_on_gt = TRUE /\ todo = {} /\ acc = AccStart /\ result = <<>>
    /\ error = "none" /\ agg_pc = "off"

RelOff ==
    /\ segment = FALSE /\ dataset = <<>> /\ train_triplets = {}
    /\ rel_prediction = <<>> /\ rel_groundtruth = <<>> /\ zs_prediction = <<>>
    /\ calls = <<>> /\ rel_pc = "off"

\* --------------------------------------------- eval_detection_scores, steps
DetInit ==
    /\ gt_relations \in BoundedSeq(GtInsts, MaxGt)
    /\ pred_input \in BoundedSeq(PredInsts, MaxPred)
    /\ viou_threshold = DefaultViouThreshold
    /\ pred_relations = <<>>
    /\ pred_idx = 0
    /\ gt_detected = <<>>
    /\ hit_scores = <<>>
    /\ k_hist = <<>>
    /\ det_result = <<>>
    /\ det_pc = "start"
    /\ TagOff
    /\ AggOff
    /\ RelOff

\* Lines 9-11: the sort and the two fresh arrays.
DetSort ==
    /\ det_pc = "start"
    /\ pred_relations' = SortByScore(pred_input)
    /\ LET st == DetStart(gt_relations, pred_input)
       IN  /\ gt_detected' = st.gt_detected
           /\ hit_scores' = st.hit_scores
           /\ k_hist' = st.k_hist
    /\ pred_idx' = 0
    /\ det_pc' = "loop"
    /\ UNCHANGED <<gt_relations, pred_input, viou_threshold, det_result>>

\* Lines 12-28: one prediction, with its scan of the ground truth.
DetIterate ==
    /\ det_pc = "loop"
    /\ pred_idx < Len(pred_relations)
    /\ LET st == DetStep(gt_relations, viou_threshold,
                         [gt_detected |-> gt_detected, hit_scores |-> hit_scores,
                          k_hist |-> k_hist],
                         pred_idx + 1, pred_relations[pred_idx + 1])
       IN  /\ gt_detected' = st.gt_detected
           /\ hit_scores' = st.hit_scores
           /\ k_hist' = st.k_hist
    /\ pred_idx' = pred_idx + 1
    /\ UNCHANGED <<gt_relations, pred_input, pred_relations, viou_threshold,
                   det_result, det_pc>>

\* Lines 29-35: the curves, and the return.
DetFinish ==
    /\ det_pc = "loop"
    /\ pred_idx = Len(pred_relations)
    /\ det_result' = [prec |-> PrecSeq(hit_scores),
                      rec |-> RecSeq(hit_scores, Len(gt_relations))]
    /\ det_pc' = "done"
    /\ UNCHANGED <<gt_relations, pred_input, pred_relations, viou_threshold,
                   pred_idx, gt_detected, hit_scores, k_hist>>

DetNext ==
    \/ DetSort /\ UNCHANGED <<tagVars, aggVars, relVars>>
    \/ DetIterate /\ UNCHANGED <<tagVars, aggVars, relVars>>
    \/ DetFinish /\ UNCHANGED <<tagVars, aggVars, relVars>>

SpecDet == DetInit /\ [][DetNext]_vars

\* ----------------------------------------------- eval_tagging_scores, steps
TagInit ==
    /\ tag_gt \in BoundedSeq(TagGtInsts, MaxGt)
    /\ tag_input \in BoundedSeq(TagPredInsts, MaxTagPred)
    /\ tag_sorted = <<>>
    /\ gt_triplets = {}
    /\ pred_triplets = <<>>
    /\ tag_hit_scores = <<>>
    /\ tag_k = 0
    /\ tag_result = <<>>
    /\ tag_pc = "start"
    /\ DetOff
    /\ AggOff
    /\ RelOff

\* Lines 39-43.
TagSort ==
    /\ tag_pc = "start"
    /\ tag_sorted' = SortByScore(tag_input)
    /\ gt_triplets' = GtTripletSet(tag_gt)
    /\ pred_triplets' = <<>>
    /\ tag_hit_scores' = <<>>
    /\ tag_k' = 0
    /\ tag_pc' = "walk"
    /\ UNCHANGED <<tag_gt, tag_input, tag_result>>

\* Lines 44-48: one prediction of the walk.
TagKeep ==
    /\ tag_pc = "walk"
    /\ tag_k < Len(tag_sorted)
    /\ LET st == TagWalkStep([pred_triplets |-> pred_triplets,
                              hit_scores |-> tag_hit_scores],
                             tag_sorted[tag_k + 1])
       IN  /\ pred_triplets' = st.pred_triplets
           /\ tag_hit_scores' = st.hit_scores
    /\ tag_k' = tag_k + 1
    /\ UNCHANGED <<tag_gt, tag_input, tag_sorted, gt_triplets, tag_result, tag_pc>>

\* Lines 49-52: the walk is over, the misses are overwritten.
TagMarkMisses ==
    /\ tag_pc = "walk"
    /\ tag_k = Len(tag_sorted)
    /\ tag_hit_scores' = TagMask(pred_triplets, tag_hit_scores, gt_triplets)
    /\ tag_pc' = "cum"
    /\ UNCHANGED <<tag_gt, tag_input, tag_sorted, gt_triplets, pred_triplets,
                   tag_k, tag_result>>

\* Lines 53-59: the curves, and the return.
TagFinish ==
    /\ tag_pc = "cum"
    /\ tag_result' = [prec |-> PrecSeq(tag_hit_scores),
                      rec |-> RecSeq(tag_hit_scores, Cardinality(gt_triplets))]
    /\ tag_pc' = "done"
    /\ UNCHANGED <<tag_gt, tag_input, tag_sorted, gt_triplets, pred_triplets,
                   tag_hit_scores, tag_k>>

TagNext ==
    \/ TagSort /\ UNCHANGED <<detVars, aggVars, relVars>>
    \/ TagKeep /\ UNCHANGED <<detVars, aggVars, relVars>>
    \/ TagMarkMisses /\ UNCHANGED <<detVars, aggVars, relVars>>
    \/ TagFinish /\ UNCHANGED <<detVars, aggVars, relVars>>

SpecTag == TagInit /\ [][TagNext]_vars

\* ------------------------------------------------------------ evaluate, steps
\* The mapping the loop iterates, and the one it looks the video up in.
Anchor == IF base_on_gt THEN groundtruth ELSE prediction

EvalInit ==
    /\ func = "evaluate"
    /\ groundtruth \in [Videos -> BoundedSeq(AggGtInsts, MaxVideoGt)]
    /\ prediction \in [Videos -> BoundedSeq(AggPredInsts, MaxPred)]
    /\ base_on_gt \in BOOLEAN
    /\ todo = Videos
    /\ acc = AccStart
    /\ result = <<>>
    /\ error = "none"
    /\ agg_pc = "loop"
    /\ DetOff
    /\ TagOff
    /\ RelOff

\* Lines 149-151 and 195-198: a video with an empty list is skipped.
EvalSkip ==
    /\ func = "evaluate"
    /\ agg_pc = "loop"
    /\ \E vid \in todo :
          /\ Len(Anchor[vid]) = 0
          /\ todo' = todo \ {vid}
    /\ UNCHANGED <<func, groundtruth, prediction, base_on_gt, acc, result, error,
                   agg_pc>>

\* Lines 152-170 and 199-217: one video.
EvalVideo ==
    /\ func = "evaluate"
    /\ agg_pc = "loop"
    /\ \E vid \in todo :
          /\ Len(Anchor[vid]) # 0
          /\ acc' = EvaluateVideo(acc, vid, groundtruth[vid], prediction[vid],
                                  DefaultViouThreshold, base_on_gt)
          /\ todo' = todo \ {vid}
    /\ UNCHANGED <<func, groundtruth, prediction, base_on_gt, result, error, agg_pc>>

\* Lines 79-103 are left for lines 105-119, lines 149-170 for 172-186:
\* the loop is over.
AggLoopEnd ==
    /\ agg_pc = "loop"
    /\ todo = {}
    /\ agg_pc' = "reduce"
    /\ UNCHANGED <<func, groundtruth, prediction, base_on_gt, todo, acc, result,
                   error>>

\* Lines 172-186 and 236-244: the results, the report, the return.
AggReturn ==
    /\ agg_pc = "reduce"
    /\ LET r == Reduce(acc)
       IN  /\ r.error = "none"
           /\ result' = [mean_ap |-> r.mean_ap, rec_at_n |-> r.rec_at_n,
                         mprec_at_n |-> r.mprec_at_n]
    /\ agg_pc' = "returned"
    /\ UNCHANGED <<func, groundtruth, prediction, base_on_gt, todo, acc, error>>

\* Lines 176 and 182: np.concatenate of no array, or rec[-1] of an empty
\* array, raises.
AggRaise ==
    /\ agg_pc = "reduce"
    /\ LET r == Reduce(acc)
       IN  /\ r.error # "none"
           /\ error' = r.error
    /\ agg_pc' = "raised"
    /\ UNCHANGED <<func, groundtruth, prediction, base_on_gt, todo, acc, result>>

EvalNext ==
    \/ EvalSkip /\ UNCHANGED <<detVars, tagVars, relVars>>
    \/ EvalVideo /\ UNCHANGED <<detVars, tagVars, relVars>>
    \/ AggLoopEnd /\ UNCHANGED <<detVars, tagVars, relVars>>
    \/ AggReturn /\ UNCHANGED <<detVars, tagVars, relVars>>
    \/ AggRaise /\ UNCHANGED <<detVars, tagVars, relVars>>

Spec == EvalInit /\ [][EvalNext]_vars

\* -------------------------------------------------------- evaluate_segs, steps
SegsInit ==
    /\ func = "evaluate_segs"
    /\ groundtruth \in [Videos -> BoundedSeq(AggGtInsts, MaxSegs)]
    /\ prediction \in [Videos -> BoundedSeq(AggPredInsts, MaxPred)]
    /\ base_on_gt \in BOOLEAN
    /\ todo = Videos
    /\ acc = AccStart
    /\ result = <<>>
    /\ error = "none"
    /\ agg_pc = "entry"
    /\ DetOff
    /\ TagOff
    /\ RelOff

\* Lines 68-76: the prediction-anchored branch, its accumulators empty.
SegsEnter ==
    /\ func = "evaluate_segs"
    /\ agg_pc = "entry"
    /\ ~base_on_gt
    /\ acc' = AccStart
    /\ agg_pc' = "loop"
    /\ UNCHANGED <<func, groundtruth, prediction, base_on_gt, todo, result, error>>

\* Lines 120-122: the ground-truth-anchored branch prints and exits.
SegsExit ==
    /\ func = "evaluate_segs"
    /\ agg_pc = "entry"
    /\ base_on_gt
    /\ agg_pc' = "exited"
    /\ UNCHANGED <<func, groundtruth, prediction, base_on_gt, todo, acc, result,
                   error>>

\* Lines 79-81: a video without predictions is skipped.
SegsSkip ==
    /\ func = "evaluate_segs"
    /\ agg_pc = "loop"
    /\ \E vid \in todo :
          /\ Len(prediction[vid]) = 0
          /\ todo' = todo \ {vid}
    /\ UNCHANGED <<func, groundtruth, prediction, base_on_gt, acc, result, error,
                   agg_pc>>

\* Lines 82-103: one video, all its ground-truth segments.
SegsIterate ==
    /\ func = "evaluate_segs"
    /\ agg_pc = "loop"
    /\ \E vid \in todo :
          /\ Len(prediction[vid]) # 0
          /\ acc' = SegsVideo(acc, vid, groundtruth[vid], prediction[vid],
                              DefaultViouThreshold)
          /\ todo' = todo \ {vid}
    /\ UNCHANGED <<func, groundtruth, prediction, base_on_gt, result, error, agg_pc>>

SegsNext ==
    \/ SegsEnter /\ UNCHANGED <<detVars, tagVars, relVars>>
    \/ SegsExit /\ UNCHANGED <<detVars, tagVars, relVars>>
    \/ SegsSkip /\ UNCHANGED <<detVars, tagVars, relVars>>
    \/ SegsIterate /\ UNCHANGED <<detVars, tagVars, relVars>>
    \/ AggLoopEnd /\ UNCHANGED <<detVars, tagVars, relVars>>
    \/ AggReturn /\ UNCHANGED <<detVars, tagVars, relVars>>
    \/ AggRaise /\ UNCHANGED <<detVars, tagVars, relVars>>

SpecSegs == SegsInit /\ [][SegsNext]_vars

\* ---------------------------------------------------- evaluate_relation, steps
RelInit ==
    /\ segment \in BOOLEAN
    /\ dataset \in [Videos -> BoundedSeq(AggGtInsts, MaxVideoGt)]
    /\ train_triplets \in SUBSET Triplets
    /\ rel_prediction \in [Videos -> BoundedSeq(AggPredInsts, MaxPred)]
    /\ rel_groundtruth = <<>>
    /\ zs_prediction = <<>>
    /\ calls = <<>>
    /\ rel_pc = "build"
    /\ DetOff
    /\ TagOff
    /\ AggOff

\* eval_visual_relation_segs(gt, pred) or eval_visual_relation(gt, pred):
\* the aggregator is entered with base_on_gt at its default, True.
EnterAggregator(gt, pred) ==
    /\ func' = IF segment THEN "evaluate_segs" ELSE "evaluate"
    /\ groundtruth' = gt
    /\ prediction' = pred
    /\ base_on_gt' = TRUE
    /\ todo' = DOMAIN gt
    /\ acc' = AccStart
    /\ result' = <<>>
    /\ error' = "none"
    /\ agg_pc' = IF segment THEN "entry" ELSE "loop"

\* Lines 24-26: the ground truth of every video of the split.
RelBuild ==
    /\ rel_pc = "build"
    /\ rel_groundtruth' = [vid \in Videos |-> dataset[vid]]
    /\ rel_pc' = "first"
    /\ UNCHANGED <<segment, dataset, train_triplets, rel_prediction, zs_prediction,
                   calls>>
    /\ UNCHANGED aggVars

\* Lines 28-31: the aggregator is called on the full ground truth and
\* prediction.
RelFirstCall ==
    /\ rel_pc = "first"
    /\ EnterAggregator(rel_groundtruth, rel_prediction)
    /\ calls' = Append(calls, "full")
    /\ rel_pc' = "in_first"
    /\ UNCHANGED <<segment, dataset, train_triplets, rel_prediction,
                   rel_groundtruth, zs_prediction>>

\* Lines 34-50: the first call has returned; the zero-shot triplets, and
\* the ground truth and predictions they leave.
RelFilter ==
    /\ rel_pc = "in_first"
    /\ agg_pc = "returned"
    /\ LET zeroshot_triplets == SplitTriplets(dataset) \ train_triplets
           kept == {vid \in Videos :
                       Len(ZeroShotOnly(dataset[vid], zeroshot_triplets)) > 0}
       IN  /\ rel_groundtruth' =
                 [vid \in kept |-> ZeroShotOnly(dataset[vid], zeroshot_triplets)]
           /\ zs_prediction' =
                 [vid \in kept |-> ZeroShotOnly(rel_prediction[vid], zeroshot_triplets)]
    /\ rel_pc' = "second"
    /\ UNCHANGED <<segment, dataset, train_triplets, rel_prediction, calls>>
    /\ UNCHANGED aggVars

\* Lines 51-54: the aggregator is called on the zero-shot subset.
RelSecondCall ==
    /\ rel_pc = "second"
    /\ EnterAggregator(rel_groundtruth, zs_prediction)
    /\ calls' = Append(calls, "zero-shot")
    /\ rel_pc' = "in_second"
    /\ UNCHANGED <<segment, dataset, train_triplets, rel_prediction,
                   rel_groundtruth, zs_prediction>>

\* Line 54: the second call has returned, and so does evaluate_relation.
RelReturn ==
    /\ rel_pc = "in_second"
    /\ agg_pc = "returned"
    /\ rel_pc' = "returned"
    /\ UNCHANGED <<segment, dataset, train_triplets, rel_prediction,
                   rel_groundtruth, zs_prediction, calls>>
    /\ UNCHANGED aggVars

\* An exception of the aggregator is not caught, and its exit(0) ends the
\* process: evaluate_relation goes no further.
RelAbort ==
    /\ rel_pc \in {"in_first", "in_second"}
    /\ agg_pc \in {"raised", "exited"}
    /\ rel_pc' = agg_pc
    /\ UNCHANGED <<segment, dataset, train_triplets, rel_prediction,
                   rel_groundtruth, zs_prediction, calls>>
    /\ UNCHANGED aggVars

\* The prediction-anchored steps of evaluate_segs are not among these:
\* evaluate_relation never passes base_on_gt.
RelNext ==
    \/ RelBuild /\ UNCHANGED <<detVars, tagVars>>
    \/ RelFirstCall /\ UNCHANGED <<detVars, tagVars>>
    \/ RelFilter /\ UNCHANGED <<detVars, tagVars>>
    \/ RelSecondCall /\ UNCHANGED <<detVars, tagVars>>
    \/ RelReturn /\ UNCHANGED <<detVars, tagVars>>
    \/ RelAbort /\ UNCHANGED <<detVars, tagVars>>
    \/ EvalSkip /\ UNCHANGED <<detVars, tagVars, relVars>>
    \/ EvalVideo /\ UNCHANGED <<detVars, tagVars, relVars>>
    \/ SegsExit /\ UNCHANGED <<detVars, tagVars, relVars>>
    \/ AggLoopEnd /\ UNCHANGED <<detVars, tagVars, relVars>>
    \/ AggReturn /\ UNCHANGED <<detVars, tagVars, relVars>>
    \/ AggRaise /\ UNCHANGED <<detVars, tagVars, relVars>>

SpecRel == RelInit /\ [][RelNext]_vars

\* ------------------------------------------------ claims on the matcher
\* min(subject viou, object viou), stated apart from the model's Overlap.
ClaimOverlap(p, g) ==
    LET s_iou == Viou(p.sub_traj, p.duration, g.sub_traj, g.duration)
        o_iou == Viou(p.obj_traj, p.duration, g.obj_traj, g.duration)
    IN  IF s_iou[1] * o_iou[2] <= o_iou[1] * s_iou[2] THEN s_iou ELSE o_iou

\* The ground truth claimed by the iterations before rank idx.
ClaimedBefore(idx) == {k_hist[i] : i \in 1..(idx - 1)} \ {0}

\* The candidates of the prediction at rank idx: not yet claimed, of its
\* triplet, with overlap at least the threshold.
Qualifying(idx) ==
    {j \in 1..Len(gt_relations) :
        /\ j \notin ClaimedBefore(idx)
        /\ gt_relations[j].triplet = pred_relations[idx].triplet
        /\ RatLe(viou_threshold, ClaimOverlap(pred_relations[idx], gt_relations[j]))}

Count(seq, x) == Cardinality({i \in 1..Len(seq) : seq[i] = x})

HitRanks == {i \in 1..Len(hit_scores) : IsFinite(hit_scores[i])}

\* C1: the predictions are visited in descending score order; each one
\* considers exactly the unclaimed ground truth of its triplet with overlap
\* min(s_iou, o_iou) >= viou_threshold; if there is any, it claims one of
\* maximal overlap among them and records its score as a hit at its rank;
\* if there is none, it records the -inf sentinel and claims nothing.
C1_GreedyMaxOverlap ==
    det_pc \in {"loop", "done"} =>
        /\ Len(pred_relations) = Len(pred_input)
        /\ \A r \in PredInsts : Count(pred_relations, r) = Count(pred_input, r)
        /\ \A i, j \in 1..Len(pred_relations) :
              i < j => pred_relations[i].score >= pred_relations[j].score
        /\ Len(k_hist) = pred_idx
        /\ \A idx \in 1..pred_idx :
              LET Q == Qualifying(idx)
                  k == k_hist[idx]
              IN  IF Q # {}
                  THEN /\ k \in Q
                       /\ \A j \in Q :
                             RatLe(ClaimOverlap(pred_relations[idx], gt_relations[j]),
                                   ClaimOverlap(pred_relations[idx], gt_relations[k]))
                       /\ hit_scores[idx] = pred_relations[idx].score
                  ELSE /\ k = 0
                       /\ hit_scores[idx] = NegInf
        /\ \A idx \in (pred_idx + 1)..Len(pred_relations) : hit_scores[idx] = NegInf
        /\ \A j \in 1..Len(gt_relations) :
              gt_detected[j] <=> j \in ClaimedBefore(pred_idx + 1)

\* A prediction with two candidates of different overlap that claimed the
\* second, the larger one.
C1_Witness ==
    /\ det_pc = "done"
    /\ \E idx \in 1..pred_idx :
          /\ Qualifying(idx) = {1, 2}
          /\ RatLt(ClaimOverlap(pred_relations[idx], gt_relations[1]),
                   ClaimOverlap(pred_relations[idx], gt_relations[2]))
          /\ k_hist[idx] = 2
          /\ IsFinite(hit_scores[idx])

\* Two predictions of one triplet and one score, whose overlaps with the
\* single ground-truth instance differ.
C2_Case ==
    /\ det_pc = "done"
    /\ Len(pred_input) = 2
    /\ Len(gt_relations) = 1
    /\ pred_input[1].triplet = pred_input[2].triplet
    /\ pred_input[1].score = pred_input[2].score
    /\ ClaimOverlap(pred_input[1], gt_relations[1])
         # ClaimOverlap(pred_input[2], gt_relations[1])

\* The input position of the prediction with the greater overlap.
C2_Greater ==
    IF RatLt(ClaimOverlap(pred_input[1], gt_relations[1]),
             ClaimOverlap(pred_input[2], gt_relations[1]))
    THEN 2 ELSE 1

C2_Qualifies(i) ==
    RatLe(viou_threshold, ClaimOverlap(pred_input[i], gt_relations[1]))

\* C2 as claimed: of two such predictions exactly one is a hit, and it is
\* the one with the strictly greater overlap, whatever the input order.
C2_AsClaimed ==
    C2_Case => HitRanks = {C2_Greater}

\* C2 amended: against a ground-truth instance of their triplet, if only
\* the greater overlap reaches the threshold the hit is that prediction,
\* whatever the input order; if both reach it the hit is the prediction
\* listed first; if neither does, or the triplet differs, there is no hit.
C2_Amended ==
    C2_Case =>
        IF gt_relations[1].triplet # pred_input[1].triplet THEN HitRanks = {}
        ELSE IF C2_Qualifies(1) /\ C2_Qualifies(2) THEN HitRanks = {1}
        ELSE IF C2_Qualifies(C2_Greater) THEN HitRanks = {C2_Greater}
        ELSE HitRanks = {}

\* The greater overlap listed second and alone above the threshold: it is
\* the hit.
C2_Witness ==
    /\ C2_Case
    /\ gt_relations[1].triplet = pred_input[1].triplet
    /\ C2_Greater = 2
    /\ ~C2_Qualifies(1)
    /\ C2_Qualifies(2)
    /\ HitRanks = {2}

\* C10: in every state of a matching pass each ground-truth instance is
\* claimed by at most one prediction, each hit prediction claimed one
\* instance of its triplet with overlap >= viou_threshold, and the hits so
\* far are as many as the flags set; so the hits are at most
\* min(ground truth, predictions) and no recall exceeds 1.  The flags are
\* all false when the loop is entered.
C10_ClaimInvariant ==
    det_pc \in {"loop", "done"} =>
        /\ Len(gt_detected) = Len(gt_relations)
        /\ Len(k_hist) = pred_idx
        /\ pred_idx = 0 => \A j \in 1..Len(gt_detected) : ~gt_detected[j]
        /\ \A i, j \in 1..pred_idx :
              (i # j /\ k_hist[i] # 0) => k_hist[i] # k_hist[j]
        /\ \A i \in 1..pred_idx :
              IF IsFinite(hit_scores[i])
              THEN /\ k_hist[i] \in 1..Len(gt_relations)
                   /\ gt_detected[k_hist[i]]
                   /\ gt_relations[k_hist[i]].triplet = pred_relations[i].triplet
                   /\ RatLe(viou_threshold,
                            ClaimOverlap(pred_relations[i], gt_relations[k_hist[i]]))
              ELSE k_hist[i] = 0
        /\ Cardinality(HitRanks)
             = Cardinality({j \in 1..Len(gt_detected) : gt_detected[j]})
        /\ Cardinality(HitRanks) <= Len(gt_relations)
        /\ Cardinality(HitRanks) <= Len(pred_relations)
        /\ det_pc = "done" =>
              \A k \in 1..Len(det_result.rec) : RatLe(det_result.rec[k], One)

\* A second prediction that would have qualified for the instance the
\* first one claimed, and is a miss.
C10_Witness ==
    /\ det_pc = "done"
    /\ Len(pred_relations) = 2
    /\ k_hist = <<1, 0>>
    /\ gt_relations[1].triplet = pred_relations[2].triplet
    /\ RatLe(viou_threshold, ClaimOverlap(pred_relations[2], gt_relations[1]))
    /\ HitRanks = {1}


\* ------------------------------------------------- claims on the tagger
\* The rank, in the sorted predictions, of the first occurrence of triplet t.
FirstOcc(t) ==
    CHOOSE k \in 1..Len(tag_sorted) :
        /\ tag_sorted[k].triplet = t
        /\ \A m \in 1..(k - 1) : tag_sorted[m].triplet # t

TagHitsUpTo(k) ==
    Cardinality({i \in 1..k : pred_triplets[i] \in {tag_gt[j].triplet : j \in 1..Len(tag_gt)}})

\* What C3 says of the entries, but for the scores they carry.
C3_Entries ==
    /\ Len(tag_sorted) = Len(tag_input)
    /\ \A r \in TagPredInsts : Count(tag_sorted, r) = Count(tag_input, r)
    /\ \A i, j \in 1..Len(tag_sorted) :
          i < j => tag_sorted[i].score >= tag_sorted[j].score
    /\ Len(pred_triplets)
         = Cardinality({tag_input[i].triplet : i \in 1..Len(tag_input)})
    /\ Len(tag_hit_scores) = Len(pred_triplets)
    /\ Len(tag_result.prec) = Len(pred_triplets)
    /\ Len(tag_result.rec) = Len(pred_triplets)
    /\ \A i \in 1..Len(pred_triplets) :
          \E k \in 1..Len(tag_input) : tag_input[k].triplet = pred_triplets[i]
    /\ \A i, j \in 1..Len(pred_triplets) :
          i < j => FirstOcc(pred_triplets[i]) < FirstOcc(pred_triplets[j])
    /\ \A i \in 1..Len(pred_triplets) :
          IsFinite(tag_hit_scores[i])
            <=> \E j \in 1..Len(tag_gt) : tag_gt[j].triplet = pred_triplets[i]
    /\ \A k \in 1..Len(pred_triplets) :
          /\ tag_result.prec[k][1] * k = TagHitsUpTo(k) * tag_result.prec[k][2]
          /\ LET n == Cardinality({tag_gt[j].triplet : j \in 1..Len(tag_gt)})
             IN  IF n = 0 THEN tag_result.rec[k][1] = 0
                 ELSE tag_result.rec[k][1] * n = TagHitsUpTo(k) * tag_result.rec[k][2]
    /\ ( /\ Len(tag_input) = 3
         /\ \A k \in 1..3 : tag_input[k].triplet = <<<<1, 2, 3>>, <<1, 2, 3>>, <<4, 5, 6>>>>[k]
         /\ \A k \in 1..3 : tag_input[k].score = <<9, 8, 7>>[k]
         /\ {tag_gt[j].triplet : j \in 1..Len(tag_gt)} = {<<1, 2, 3>>} )
       => /\ tag_result.prec[1] = <<1, 1>>
          /\ tag_result.prec[2] = <<1, 2>>

\* C3 as claimed: one entry per distinct predicted triplet, in the order of
\* the first occurrences in the descending-score ordering, every entry
\* carrying the score of that first occurrence; hit iff the triplet is a
\* ground-truth triplet; precision at rank k is hits among the first k over
\* k; the recall denominator is the number of distinct ground-truth
\* triplets; the example gives precision@1 = 1 and precision@2 = 1/2.
C3_AsClaimed ==
    tag_pc = "done" =>
        /\ C3_Entries
        /\ \A i \in 1..Len(pred_triplets) :
              tag_hit_scores[i] = tag_sorted[FirstOcc(pred_triplets[i])].score

\* C3 amended: as claimed, but an entry carries the score of the first
\* occurrence only if it is a hit; the entry of a miss carries -inf.
C3_Amended ==
    tag_pc = "done" =>
        /\ C3_Entries
        /\ \A i \in 1..Len(pred_triplets) :
              tag_hit_scores[i]
                = IF \E j \in 1..Len(tag_gt) : tag_gt[j].triplet = pred_triplets[i]
                  THEN tag_sorted[FirstOcc(pred_triplets[i])].score
                  ELSE NegInf

\* The example of the claim, returned.
C3_Witness ==
    /\ tag_pc = "done"
    /\ Len(tag_input) = 3
    /\ \A k \in 1..3 : tag_input[k].triplet = <<<<1, 2, 3>>, <<1, 2, 3>>, <<4, 5, 6>>>>[k]
    /\ \A k \in 1..3 : tag_input[k].score = <<9, 8, 7>>[k]
    /\ Len(tag_gt) = 1
    /\ tag_gt[1].triplet = <<1, 2, 3>>
    /\ pred_triplets = <<<<1, 2, 3>>, <<4, 5, 6>>>>
    /\ tag_hit_scores = <<9, NegInf>>
    /\ tag_result.prec = <<<<1, 1>>, <<1, 2>>>>


\* ---------------------------------------------------- claims on evaluate
\* The videos the loop does not skip.
Iterated == {v \in Videos : Len(Anchor[v]) # 0}

RECURSIVE SumOver(_, _)
SumOver(S, f) ==
    IF S = {} THEN 0
    ELSE LET x == CHOOSE y \in S : TRUE IN f[x] + SumOver(S \ {x}, f)

RECURSIVE RatSumOver(_, _)
RatSumOver(S, f) ==
    IF S = {} THEN Zero
    ELSE LET x == CHOOSE y \in S : TRUE IN RatAdd(f[x], RatSumOver(S \ {x}, f))

MeanOver(S, f) ==
    IF S = {} THEN NaN ELSE RatMul(RatSumOver(S, f), <<1, Cardinality(S)>>)

VideoHits(v) ==
    EvalDetectionScores(groundtruth[v], prediction[v], DefaultViouThreshold).hit_scores

\* The hits among the top n score-ranked predictions of video v.
HitsTop(v, n) ==
    Cardinality({k \in 1..Min(n, Len(VideoHits(v))) : IsFinite(VideoHits(v)[k])})

GtCount(v) == Len(groundtruth[v])

VideoAp(v) ==
    LET det == EvalDetectionScores(groundtruth[v], prediction[v], DefaultViouThreshold)
    IN  VocAp(det.rec, det.prec)

VideoTagPrec(v) == EvalTaggingScores(groundtruth[v], prediction[v]).prec

\* C4: in both modes rec_at_n[N] is the hits among the top N predictions of
\* every iterated video, summed, over the ground-truth relations of those
\* videos, whatever the order of iteration.
C4_AsClaimed ==
    (func = "evaluate" /\ agg_pc = "returned") =>
        \A n \in DetN :
            LET hits == SumOver(Iterated, [v \in Videos |-> HitsTop(v, n)])
                total == SumOver(Iterated, [v \in Videos |-> GtCount(v)])
            IN  IF total = 0 THEN result.rec_at_n[n][1] = 0
                ELSE result.rec_at_n[n][1] * total = hits * result.rec_at_n[n][2]

\* C5: in both modes mean_ap is the mean of the AP of the videos with at
\* least one ground-truth relation; a video with none never adds an AP.
C5_AsClaimed ==
    func = "evaluate" =>
        /\ \A v \in DOMAIN acc.ap : Len(groundtruth[v]) > 0
        /\ agg_pc = "returned" =>
              result.mean_ap
                = MeanOver({v \in Iterated : Len(groundtruth[v]) > 0},
                           [v \in Videos |-> VideoAp(v)])

\* C6 as claimed: mprec_at_n[N] is the mean over the iterated videos of the
\* tagging precision at rank N when the video has at least N retained
\* triplets, and of 0 when it has fewer.
C6_AsClaimed ==
    (func = "evaluate" /\ agg_pc = "returned") =>
        \A n \in TagN :
            result.mprec_at_n[n]
              = MeanOver(Iterated,
                         [v \in Videos |->
                            IF Len(VideoTagPrec(v)) >= n
                            THEN VideoTagPrec(v)[n] ELSE Zero])

\* C6 amended: the per-video value is the tagging precision at rank N when
\* the video has at least N retained triplets, the precision at its last
\* retained rank when it has between 1 and N - 1, and 0 only when it has
\* none.
C6_Amended ==
    (func = "evaluate" /\ agg_pc = "returned") =>
        \A n \in TagN :
            result.mprec_at_n[n]
              = MeanOver(Iterated,
                         [v \in Videos |->
                            IF Len(VideoTagPrec(v)) >= n
                            THEN VideoTagPrec(v)[n]
                            ELSE IF Len(VideoTagPrec(v)) >= 1
                            THEN VideoTagPrec(v)[Len(VideoTagPrec(v))]
                            ELSE Zero])

\* A run whose videos all have one or two retained triplets, with a hit
\* among them: precision@5 is not 0.
C6_Witness ==
    /\ func = "evaluate"
    /\ agg_pc = "returned"
    /\ \A v \in Iterated : Len(VideoTagPrec(v)) \in 1..2
    /\ \E v \in Iterated :
          /\ Len(VideoTagPrec(v)) = 2
          /\ VideoTagPrec(v)[2] # Zero
    /\ result.mprec_at_n[5] # Zero
    /\ result.mprec_at_n[5] # NaN

\* C9: ground-truth-anchored evaluate, with every ground-truth video a key
\* of the predictions, returns without raising whatever lists are empty.
C9_AsClaimed ==
    (func = "evaluate" /\ base_on_gt) => agg_pc # "raised"


\* ------------------------------------------------ claims on evaluate_segs
\* C7: prediction-anchored evaluate_segs, once every video is processed,
\* holds one AP value per ground-truth segment visited: a video with k
\* segments and a non-empty prediction list adds k values.
C7_AsClaimed ==
    (func = "evaluate_segs" /\ ~base_on_gt
        /\ agg_pc \in {"reduce", "returned", "raised"}) =>
        Len(Values(acc.ap))
          = SumOver({v \in Videos : Len(prediction[v]) # 0},
                    [v \in Videos |-> Len(groundtruth[v])])

\* -------------------------------------------- claims on evaluate_relation
\* C8: every run of evaluate_relation, segment or not, calls the
\* aggregator exactly twice, on the full data and then on the zero-shot
\* subset; the second call is always reached and both results are
\* reported.  A run that has ended has made both calls, and both returned.
C8_AsClaimed ==
    rel_pc \in {"returned", "raised", "exited"} =>
        /\ calls = <<"full", "zero-shot">>
        /\ rel_pc = "returned"


=============================================================================
